---------------------------- MODULE Spec2Model ----------------------------
(***************************************************************************)
(* Shadow page tables and guest page-table walker of RVirt (src/pmap.rs).  *)
(*                                                                         *)
(* Memory is a sparse map from 8-byte-aligned addresses to 64-bit words:   *)
(* an address outside the map's domain holds 0.  Addresses and PTEs are    *)
(* kept below 2^31; a virtual address, which needs all 64 bits, is the     *)
(* record of its bit fields                                                *)
(*   [top  |-> bits 63..39, vpn2 |-> bits 38..30, vpn1 |-> bits 29..21,    *)
(*    vpn0 |-> bits 20..12, off  |-> bits 11..0].                          *)
(***************************************************************************)
EXTENDS Integers, Sequences, FiniteSets, TLC

\* ------------------------------------------------------------ constants
PAGE_SIZE == 4096
PAGE_TABLE_SHIFT == 9
PTE_VALID == 1
PTE_READ == 2
PTE_WRITE == 4
PTE_EXECUTE == 8
PTE_USER == 16
PTE_GLOBAL == 32
PTE_ACCESSED == 64
PTE_DIRTY == 128
PTE_AD == PTE_ACCESSED + PTE_DIRTY
PTE_RWXV == PTE_READ + PTE_WRITE + PTE_EXECUTE + PTE_VALID
\* byte offset of the first direct-map slot in a root (0xf80)
DIRECT_MAP_PT_INDEX == 3968
DIRECT_MAP_PAGES == 4
NULL_PAGE_PTR == 2
\* entries of one table page
PT_ENTRIES == 512
\* 0xff8: byte offset of the hypervisor code + data slot
HYPERVISOR_SLOT_OFFSET == 4088
\* 0x20000000: PPN field of the hypervisor code + data gigapage
HYPERVISOR_PTE_BASE == 536870912
\* mode tag of satp (8 << 60)
SATP_MODE_SV39 == 8
\* 0x80000000 / HPAGE_SIZE: the asserted gpm_offset, in 2MiB pages
GPM_OFFSET_HPAGES == 1024
HPAGE_SIZE == 2097152
\* satp as left by the boot code: Sv39 on BOOT_PAGE_TABLE (0x80017000 >> 12)
BOOT_PAGE_TABLE_PPN == 524311

\* ------------------------------------------------------------ bounds
\* pages of the shadow page table region
NumPages == 8
\* largest guest physical memory, in 2MiB pages
MaxGuestHPages == 2
\* pages of the guest memory region
GuestPages == 4
\* deepest nesting of clear_page_table_range followed before giving up
DepthLimit == 4

\* ------------------------------------------------------------ u64 words
Pow2(n) == 2 ^ n
Shr(x, n) == x \div Pow2(n)
Shl(x, n) == x * Pow2(n)

RECURSIVE BitAnd(_, _)
BitAnd(x, y) ==
    IF x = 0 \/ y = 0 THEN 0
    ELSE (IF x % 2 = 1 /\ y % 2 = 1 THEN 1 ELSE 0) + 2 * BitAnd(x \div 2, y \div 2)

BitOr(x, y) == x + y - BitAnd(x, y)

\* ------------------------------------------------------------ virtual addresses
TOP_ONES == Pow2(25) - 1

VA(top, vpn2, vpn1, vpn0, off) ==
    [top |-> top, vpn2 |-> vpn2, vpn1 |-> vpn1, vpn0 |-> vpn0, off |-> off]

\* va >> 38
VaShr38(va) == va.top * 2 + va.vpn2 \div 256

\* (va >> shift) & 0x1ff for shift in {30, 21, 12}
VaIndex(va, shift) ==
    CASE shift = 30 -> va.vpn2
      [] shift = 21 -> va.vpn1
      [] shift = 12 -> va.vpn0

\* va & (2^bits - 1) for bits in {12, 21, 30}
VaLow(va, bits) ==
    CASE bits = 12 -> va.off
      [] bits = 21 -> va.vpn0 * PAGE_SIZE + va.off
      [] bits = 30 -> va.vpn1 * Pow2(21) + va.vpn0 * PAGE_SIZE + va.off

\* unsigned comparison of two virtual addresses
VaLess(a, b) ==
    LET ka == <<a.top, a.vpn2, a.vpn1, a.vpn0, a.off>>
        kb == <<b.top, b.vpn2, b.vpn1, b.vpn0, b.off>>
    IN \E i \in 1..5 : ka[i] < kb[i] /\ \A j \in 1..(i - 1) : ka[j] = kb[j]

\* DIRECT_MAP_PT_INDEX << 27 | ((!0) << 39): bits 63..39 are ones, and bits
\* 38..30 are those of DIRECT_MAP_PT_INDEX << 27, that is DIRECT_MAP_PT_INDEX >> 3
DIRECT_MAP_OFFSET == VA(TOP_ONES, Shr(DIRECT_MAP_PT_INDEX, 3), 0, 0, 0)

is_sv39(va) ==
    LET shifted == VaShr38(va)
    IN shifted = 0 \/ shifted = Pow2(26) - 1

\* ------------------------------------------------------------ memory
Read(mem, addr) == IF addr \in DOMAIN mem THEN mem[addr] ELSE 0

EmptyMem == [a \in {} |-> 0]

\* mem with only the addresses of D kept
Restrict(mem, D) == [a \in D |-> mem[a]] @@ EmptyMem

Write(mem, addr, val) ==
    IF Read(mem, addr) = val THEN mem
    ELSE IF val = 0 THEN Restrict(mem, (DOMAIN mem) \ {addr})
    ELSE (addr :> val) @@ mem

\* the slots of the page at pa
PageSlots(pa) == {pa + 8 * i : i \in 0..(PT_ENTRIES - 1)}

\* ------------------------------------------------------------ region
RegionBase == 16 * PAGE_SIZE
RegionEnd == RegionBase + NumPages * PAGE_SIZE
RegionPages == {RegionBase + k * PAGE_SIZE : k \in 0..(NumPages - 1)}

Roots == {"UVA", "KVA", "MVA", "MPA"}
ShadowRoots == {"UVA", "KVA", "MVA"}


\* index of a root in root_page_tables (1-based)
RootIndex(root) ==
    CASE root = "MPA" -> 1
      [] root = "UVA" -> 2
      [] root = "KVA" -> 3
      [] root = "MVA" -> 4

\* ------------------------------------------------------------ PageTables
\* A PageTables value while an operation runs on it:
\*   mem              the region's memory
\*   root_page_tables the four roots
\*   free_list_head   head of the free list
\*   halt             "none", or why the operation stopped for good:
\*                    "oom" (alloc_page's panic), "assert" (a failed assertion),
\*                    "diverge" (clear_page_table_range nested beyond DepthLimit)
\*   log              the alloc_page / free_page calls of the operation, in order
\*   depth            deepest nesting of clear_page_table_range in the operation
Halt(st, why) == [st EXCEPT !.halt = why]

root_pa(st, root) == st.root_page_tables[RootIndex(root)]

\* ZeroPage with the loop started at the second slot
ZeroPage_SkipFirst(mem, pa) ==
    IF (DOMAIN mem) \cap (PageSlots(pa) \ {pa}) = {} THEN mem
    ELSE Restrict(mem, (DOMAIN mem) \ (PageSlots(pa) \ {pa}))

ZeroPage(mem, pa) ==
    IF (DOMAIN mem) \cap PageSlots(pa) = {} THEN mem
    ELSE Restrict(mem, (DOMAIN mem) \ PageSlots(pa))

free_page(st, page) ==
    IF st.halt # "none" THEN st
    ELSE [st EXCEPT
            !.mem = Write(st.mem, page, st.free_list_head),
            !.free_list_head = page,
            !.log = Append(@, [op |-> "free", page |-> page,
                               zeroed |-> FALSE, stale |-> FALSE])]

\* alloc_page with the link read after the page is zeroed
alloc_page_ReadAfterZero(st) ==
    IF st.halt # "none" THEN [st |-> st, page |-> 0]
    ELSE IF st.free_list_head = NULL_PAGE_PTR THEN [st |-> Halt(st, "oom"), page |-> 0]
    ELSE LET free == st.free_list_head
             mem1 == ZeroPage(st.mem, free)
         IN [st |-> [st EXCEPT
                        !.free_list_head = Read(mem1, free),
                        !.mem = mem1,
                        !.log = Append(@, [op |-> "alloc", page |-> free,
                                  zeroed |-> \A a \in PageSlots(free) : Read(mem1, a) = 0,
                                  stale |-> \E a \in PageSlots(free) \ {free} :
                                                Read(st.mem, a) # 0])],
             page |-> free]

\* alloc_page without the test for the empty list
alloc_page_NoEmptyCheck(st) ==
    IF st.halt # "none" THEN [st |-> st, page |-> 0]
    ELSE LET free == st.free_list_head
             mem1 == ZeroPage(st.mem, free)
         IN [st |-> [st EXCEPT
                        !.free_list_head = Read(st.mem, free),
                        !.mem = mem1,
                        !.log = Append(@, [op |-> "alloc", page |-> free,
                                  zeroed |-> \A a \in PageSlots(free) : Read(mem1, a) = 0,
                                  stale |-> \E a \in PageSlots(free) \ {free} :
                                                Read(st.mem, a) # 0])],
             page |-> free]

alloc_page(st) ==
    IF st.halt # "none" THEN [st |-> st, page |-> 0]
    ELSE IF st.free_list_head = NULL_PAGE_PTR THEN [st |-> Halt(st, "oom"), page |-> 0]
    ELSE LET free == st.free_list_head
             mem1 == ZeroPage(st.mem, free)
         IN [st |-> [st EXCEPT
                        !.free_list_head = Read(st.mem, free),
                        !.mem = mem1,
                        !.log = Append(@, [op |-> "alloc", page |-> free,
                                  zeroed |-> \A a \in PageSlots(free) : Read(mem1, a) = 0,
                                  stale |-> \E a \in PageSlots(free) \ {free} :
                                                Read(st.mem, a) # 0])],
             page |-> free]

\* WalkLevel without set_nonleaf_pte: the fresh page is never linked in
WalkLevel_NoInstall(w, va, level) ==
    IF w.st.halt # "none" THEN w
    ELSE LET pte_index == VaIndex(va, 30 - PAGE_TABLE_SHIFT * level)
             pte_addr == w.page_table + pte_index * 8
             pte == Read(w.st.mem, pte_addr)
         IN IF BitAnd(pte, PTE_VALID) # 0
            THEN IF BitAnd(pte, PTE_READ + PTE_WRITE + PTE_EXECUTE) # 0
                 THEN [w EXCEPT !.st = Halt(w.st, "assert")]
                 ELSE [w EXCEPT !.page_table = Shl(Shr(pte, 10), 12)]
            ELSE LET a == alloc_page(w.st)
                 IN IF a.st.halt # "none" THEN [w EXCEPT !.st = a.st]
                    ELSE [st |-> a.st, page_table |-> a.page]

\* one iteration of the loop of pte_for_addr; w = [st, page_table]
WalkLevel(w, va, level) ==
    IF w.st.halt # "none" THEN w
    ELSE LET pte_index == VaIndex(va, 30 - PAGE_TABLE_SHIFT * level)
             pte_addr == w.page_table + pte_index * 8
             pte == Read(w.st.mem, pte_addr)
         IN IF BitAnd(pte, PTE_VALID) # 0
            THEN IF BitAnd(pte, PTE_READ + PTE_WRITE + PTE_EXECUTE) # 0
                 THEN [w EXCEPT !.st = Halt(w.st, "assert")]
                 ELSE [w EXCEPT !.page_table = Shl(Shr(pte, 10), 12)]
            ELSE LET a == alloc_page(w.st)
                 IN IF a.st.halt # "none" THEN [w EXCEPT !.st = a.st]
                    ELSE [st |-> [a.st EXCEPT !.mem =
                                     Write(a.st.mem, pte_addr,
                                           BitOr(Shr(a.page, 2), PTE_VALID))],
                          page_table |-> a.page]

\* pte_for_addr with a loop of one level: the slot returned is in the level-1
\* table
pte_for_addr_StopAtLevel1(st, root, va) ==
    IF ~VaLess(va, DIRECT_MAP_OFFSET) \/ ~is_sv39(va) \/ root = "MPA"
    THEN [st |-> Halt(st, "assert"), addr |-> 0]
    ELSE LET w0 == [st |-> st, page_table |-> root_pa(st, root)]
             w1 == WalkLevel(w0, va, 0)
         IN [st |-> w1.st,
             addr |-> IF w1.st.halt # "none" THEN 0
                      ELSE w1.page_table + VaIndex(va, 21) * 8]

\* pte_for_addr with its three assertions after the loop
pte_for_addr_AssertLast(st, root, va) ==
    LET w0 == [st |-> st, page_table |-> root_pa(st, root)]
        w1 == WalkLevel(w0, va, 0)
        w2 == WalkLevel(w1, va, 1)
    IN IF w2.st.halt # "none" THEN [st |-> w2.st, addr |-> 0]
       ELSE IF ~VaLess(va, DIRECT_MAP_OFFSET) \/ ~is_sv39(va) \/ root = "MPA"
       THEN [st |-> Halt(w2.st, "assert"), addr |-> 0]
       ELSE [st |-> w2.st, addr |-> w2.page_table + VaIndex(va, 12) * 8]

\* pte_for_addr that indexes the level-2 table by bits 29..21 again
pte_for_addr_Level1IndexTwice(st, root, va) ==
    IF ~VaLess(va, DIRECT_MAP_OFFSET) \/ ~is_sv39(va) \/ root = "MPA"
    THEN [st |-> Halt(st, "assert"), addr |-> 0]
    ELSE LET w0 == [st |-> st, page_table |-> root_pa(st, root)]
             w1 == WalkLevel(w0, va, 0)
             w2 == WalkLevel(w1, va, 1)
         IN [st |-> w2.st,
             addr |-> IF w2.st.halt # "none" THEN 0
                      ELSE w2.page_table + VaIndex(va, 21) * 8]

\* returns [st, addr]: the address of the PTE for va, or a halted st
pte_for_addr(st, root, va) ==
    IF ~VaLess(va, DIRECT_MAP_OFFSET) \/ ~is_sv39(va) \/ root = "MPA"
    THEN [st |-> Halt(st, "assert"), addr |-> 0]
    ELSE LET w0 == [st |-> st, page_table |-> root_pa(st, root)]
             w1 == WalkLevel(w0, va, 0)
             w2 == WalkLevel(w1, va, 1)
         IN [st |-> w2.st,
             addr |-> IF w2.st.halt # "none" THEN 0
                      ELSE w2.page_table + VaIndex(va, 12) * 8]

\* PageTableRegion::set_leaf_pte: the word is stored as it is given
set_leaf_pte(mem, pte_addr, pte) == Write(mem, pte_addr, pte)

set_mapping(st, root, va, pte) ==
    LET r == pte_for_addr(st, root, va)
    IN IF r.st.halt # "none" THEN r.st
       ELSE [r.st EXCEPT !.mem = set_leaf_pte(r.st.mem, r.addr, pte)]

RECURSIVE clear_page_table_range(_, _, _, _, _)
RECURSIVE ClearSlots(_, _, _, _, _)

\* ClearSlot without set_invalid_pte after a child was freed
ClearSlot_KeepEntry(st, pa, i, depth) ==
    IF st.halt # "none" THEN st
    ELSE LET pte == Read(st.mem, pa + i * 8)
         IN IF BitAnd(pte, PTE_RWXV) = PTE_VALID
            THEN LET page == Shl(Shr(pte, 10), 12)
                 IN free_page(
                      clear_page_table_range(st, page, 0, PT_ENTRIES, depth + 1),
                      page)
            ELSE [st EXCEPT !.mem = Write(st.mem, pa + i * 8, 0)]

\* ClearSlot that takes every valid entry for a pointer entry
ClearSlot_AnyValidIsPointer(st, pa, i, depth) ==
    IF st.halt # "none" THEN st
    ELSE LET pte == Read(st.mem, pa + i * 8)
             st1 == IF BitAnd(pte, PTE_VALID) = PTE_VALID
                    THEN LET page == Shl(Shr(pte, 10), 12)
                         IN free_page(
                              clear_page_table_range(st, page, 0, PT_ENTRIES, depth + 1),
                              page)
                    ELSE st
         IN IF st1.halt # "none" THEN st1
            ELSE [st1 EXCEPT !.mem = Write(st1.mem, pa + i * 8, 0)]

\* ClearSlot that clears a child table without free_page
ClearSlot_NoFree(st, pa, i, depth) ==
    IF st.halt # "none" THEN st
    ELSE LET pte == Read(st.mem, pa + i * 8)
             st1 == IF BitAnd(pte, PTE_RWXV) = PTE_VALID
                    THEN LET page == Shl(Shr(pte, 10), 12)
                         IN clear_page_table_range(st, page, 0, PT_ENTRIES, depth + 1)
                    ELSE st
         IN IF st1.halt # "none" THEN st1
            ELSE [st1 EXCEPT !.mem = Write(st1.mem, pa + i * 8, 0)]

\* the body of the loop of clear_page_table_range, for slot i
ClearSlot(st, pa, i, depth) ==
    IF st.halt # "none" THEN st
    ELSE LET pte == Read(st.mem, pa + i * 8)
             st1 == IF BitAnd(pte, PTE_RWXV) = PTE_VALID
                    THEN LET page == Shl(Shr(pte, 10), 12)
                         IN free_page(
                              clear_page_table_range(st, page, 0, PT_ENTRIES, depth + 1),
                              page)
                    ELSE st
         IN IF st1.halt # "none" THEN st1
            ELSE [st1 EXCEPT !.mem = Write(st1.mem, pa + i * 8, 0)]

\* the loop of clear_page_table_range over slots lo..hi-1, in increasing order.
\* Slots that hold 0 are passed over: for each the body reads 0, frees nothing
\* and writes 0 back. The next slot is looked up in the memory as the body
\* of the slots before it left it.
ClearSlots(st, pa, lo, hi, depth) ==
    LET nonzero == {a \in DOMAIN st.mem : a >= pa + lo * 8 /\ a < pa + hi * 8}
    IN IF lo >= hi \/ nonzero = {} THEN st
       ELSE LET a == CHOOSE x \in nonzero : \A y \in nonzero : x <= y
                i == (a - pa) \div 8
                s1 == ClearSlot(st, pa, i, depth)
            IN IF s1.halt # "none" THEN s1
               ELSE ClearSlots(s1, pa, i + 1, hi, depth)

clear_page_table_range(st, pa, start_index, end_index, depth) ==
    IF st.halt # "none" THEN st
    ELSE IF depth > DepthLimit THEN Halt(st, "diverge")
    ELSE IF ~(start_index <= end_index) \/ ~(end_index <= PT_ENTRIES)
    THEN Halt(st, "assert")
    ELSE ClearSlots([st EXCEPT !.depth = IF depth > @ THEN depth ELSE @],
                    pa, start_index, end_index, depth)

\* flush_shadow_page_table with the range one slot short
flush_shadow_page_table_ShortRange(st) ==
    LET c1 == clear_page_table_range(st, root_pa(st, "UVA"), 0,
                                     DIRECT_MAP_PT_INDEX \div 8 - 1, 1)
        c2 == clear_page_table_range(c1, root_pa(c1, "KVA"), 0,
                                     DIRECT_MAP_PT_INDEX \div 8 - 1, 1)
    IN clear_page_table_range(c2, root_pa(c2, "MVA"), 0,
                              DIRECT_MAP_PT_INDEX \div 8 - 1, 1)

\* flush_shadow_page_table over all 512 slots of each root
flush_shadow_page_table_WholeRoot(st) ==
    LET c1 == clear_page_table_range(st, root_pa(st, "UVA"), 0, PT_ENTRIES, 1)
        c2 == clear_page_table_range(c1, root_pa(c1, "KVA"), 0, PT_ENTRIES, 1)
    IN clear_page_table_range(c2, root_pa(c2, "MVA"), 0, PT_ENTRIES, 1)

\* flush_shadow_page_table that clears the MPA root in place of the MVA root
flush_shadow_page_table_WrongRoot(st) ==
    LET c1 == clear_page_table_range(st, root_pa(st, "UVA"), 0,
                                     DIRECT_MAP_PT_INDEX \div 8, 1)
        c2 == clear_page_table_range(c1, root_pa(c1, "KVA"), 0,
                                     DIRECT_MAP_PT_INDEX \div 8, 1)
    IN clear_page_table_range(c2, root_pa(c2, "MPA"), 0,
                              DIRECT_MAP_PT_INDEX \div 8, 1)

flush_shadow_page_table(st) ==
    LET c1 == clear_page_table_range(st, root_pa(st, "UVA"), 0,
                                     DIRECT_MAP_PT_INDEX \div 8, 1)
        c2 == clear_page_table_range(c1, root_pa(c1, "KVA"), 0,
                                     DIRECT_MAP_PT_INDEX \div 8, 1)
    IN clear_page_table_range(c2, root_pa(c2, "MVA"), 0,
                              DIRECT_MAP_PT_INDEX \div 8, 1)

\* SeedFreeList that tests a page's first byte only against initrd_start
RECURSIVE SeedFreeList_FirstByteOnly(_, _, _, _, _)
SeedFreeList_FirstByteOnly(st, addr, end, initrd_start, initrd_end) ==
    IF ~(addr < end) THEN st
    ELSE SeedFreeList_FirstByteOnly(
            IF addr <= initrd_start \/ addr >= initrd_end
            THEN free_page(st, addr) ELSE st,
            addr + PAGE_SIZE, end, initrd_start, initrd_end)

\* the free-list seeding loop of PageTables::new
RECURSIVE SeedFreeList(_, _, _, _, _)
SeedFreeList(st, addr, end, initrd_start, initrd_end) ==
    IF ~(addr < end) THEN st
    ELSE SeedFreeList(
            IF addr + PAGE_SIZE <= initrd_start \/ addr >= initrd_end
            THEN free_page(st, addr) ELSE st,
            addr + PAGE_SIZE, end, initrd_start, initrd_end)

RECURSIVE AllocRoots(_, _)
AllocRoots(st, i) ==
    IF i > 4 THEN st
    ELSE LET a == alloc_page(st)
         IN IF a.st.halt # "none" THEN a.st
            ELSE AllocRoots([a.st EXCEPT !.root_page_tables[i] = a.page], i + 1)

PageTables_new(mem0, start, end, initrd_start, initrd_end) ==
    LET ret == [mem |-> mem0, root_page_tables |-> <<0, 0, 0, 0>>,
                free_list_head |-> NULL_PAGE_PTR, halt |-> "none",
                log |-> <<>>, depth |-> 0]
    IN IF start % PAGE_SIZE # 0 THEN Halt(ret, "assert")
       ELSE AllocRoots(SeedFreeList(ret, start, end, initrd_start, initrd_end), 1)


\* ------------------------------------------------------------ init
\* the body of init's loop over the roots, for the root page at pa
RECURSIVE InitDirectMap(_, _, _)
InitDirectMap(mem0, pa, i) ==
    IF i >= DIRECT_MAP_PAGES THEN mem0
    ELSE InitDirectMap(
            Write(mem0, pa + DIRECT_MAP_PT_INDEX + i * 8,
                  BitOr(Shl(i, 28), BitOr(PTE_AD, PTE_RWXV))),
            pa, i + 1)

InitRoot(mem0, pa) ==
    Write(InitDirectMap(ZeroPage(mem0, pa), pa, 0),
          pa + HYPERVISOR_SLOT_OFFSET,
          BitOr(HYPERVISOR_PTE_BASE, BitOr(PTE_AD, PTE_RWXV)))

\* install_root without the comparison: satp is written and the fence issued
\* on every call
install_root_AlwaysWrite(st, root, satp0) ==
    [satp |-> [mode |-> SATP_MODE_SV39, ppn |-> Shr(root_pa(st, root), 12)],
     written |-> TRUE, fenced |-> TRUE]

\* satp is the record of its fields: mode (bits 63..60) and ppn
install_root(st, root, satp0) ==
    LET new_satp == [mode |-> SATP_MODE_SV39, ppn |-> Shr(root_pa(st, root), 12)]
    IN IF satp0 # new_satp
       THEN [satp |-> new_satp, written |-> TRUE, fenced |-> TRUE]
       ELSE [satp |-> satp0, written |-> FALSE, fenced |-> FALSE]

\* MapGuestMemory that allocates a level-1 table for every 2MiB page
RECURSIVE MapGuestMemory_AlwaysAlloc(_, _, _, _)
MapGuestMemory_AlwaysAlloc(st, p, npages, guest_shift_hp) ==
    IF st.halt # "none" \/ p >= npages THEN st
    ELSE LET va_hp == GPM_OFFSET_HPAGES + p
             pa_hp == va_hp + guest_shift_hp
             pte_index == Shr(va_hp, 9)
             pte_addr == root_pa(st, "MPA") + pte_index * 8
             leaf == BitOr(Shl(pa_hp, 19),
                           BitOr(PTE_AD, BitOr(PTE_USER, PTE_RWXV)))
             a == alloc_page(st)
         IN IF a.st.halt # "none" THEN a.st
            ELSE MapGuestMemory_AlwaysAlloc(
                   [a.st EXCEPT !.mem =
                      Write(Write(a.st.mem, pte_addr,
                                  BitOr(Shr(a.page, 2), PTE_VALID)),
                            a.page + (va_hp % 512) * 8, leaf)],
                   p + 1, npages, guest_shift_hp)

\* init's loop over the 2MiB pages of guest physical memory, from page p on.
\* va and pa are kept in 2MiB pages: gpm_offset and guest_shift are multiples
\* of HPAGE_SIZE, so va >> 30 = va_hp >> 9, (va >> 21) & 0x1ff = va_hp % 512
\* and pa >> 2 = pa_hp << 19.
RECURSIVE MapGuestMemory(_, _, _, _)
MapGuestMemory(st, p, npages, guest_shift_hp) ==
    IF st.halt # "none" \/ p >= npages THEN st
    ELSE LET va_hp == GPM_OFFSET_HPAGES + p
             pa_hp == va_hp + guest_shift_hp
             pte_index == Shr(va_hp, 9)
             pte_addr == root_pa(st, "MPA") + pte_index * 8
             pte == Read(st.mem, pte_addr)
             leaf == BitOr(Shl(pa_hp, 19),
                           BitOr(PTE_AD, BitOr(PTE_USER, PTE_RWXV)))
         IN IF BitAnd(pte, PTE_VALID) # 0
            THEN IF BitAnd(pte, PTE_READ + PTE_WRITE + PTE_EXECUTE) # 0
                 THEN Halt(st, "assert")
                 ELSE MapGuestMemory(
                        [st EXCEPT !.mem = Write(st.mem,
                             Shl(Shr(pte, 10), 12) + (va_hp % 512) * 8, leaf)],
                        p + 1, npages, guest_shift_hp)
            ELSE LET a == alloc_page(st)
                 IN IF a.st.halt # "none" THEN a.st
                    ELSE MapGuestMemory(
                           [a.st EXCEPT !.mem =
                              Write(Write(a.st.mem, pte_addr,
                                          BitOr(Shr(a.page, 2), PTE_VALID)),
                                    a.page + (va_hp % 512) * 8, leaf)],
                           p + 1, npages, guest_shift_hp)

\* init after PageTables::new: the roots, then guest physical memory
init(st, m) ==
    LET m1 == InitRoot(st.mem, root_pa(st, "MPA"))
        m2 == InitRoot(m1, root_pa(st, "UVA"))
        m3 == InitRoot(m2, root_pa(st, "KVA"))
        m4 == InitRoot(m3, root_pa(st, "MVA"))
        st1 == [st EXCEPT !.mem = m4]
    IN IF m.gpm_size % HPAGE_SIZE # 0 THEN Halt(st1, "assert")
       ELSE MapGuestMemory(st1, 0, m.gpm_size \div HPAGE_SIZE, m.guest_shift_hp)

\* ------------------------------------------------------------ inputs
\* what the boot loader hands over: the init ramdisk's extent, the size of
\* guest physical memory, and the guest shift (in 2MiB pages). The ramdisk
\* of the third leaves three pages of the region usable.
Machines ==
    { [initrd_start |-> 0, initrd_end |-> 0,
       gpm_size |-> HPAGE_SIZE, guest_shift_hp |-> 0],
      [initrd_start |-> RegionBase + PAGE_SIZE + 16,
       initrd_end |-> RegionBase + 2 * PAGE_SIZE - 16,
       gpm_size |-> MaxGuestHPages * HPAGE_SIZE, guest_shift_hp |-> 512],
      [initrd_start |-> RegionBase + PAGE_SIZE + 16,
       initrd_end |-> RegionEnd - 2 * PAGE_SIZE,
       gpm_size |-> HPAGE_SIZE, guest_shift_hp |-> 0] }

\* a well-formed leaf PTE: VALID and at least one of READ, WRITE, EXECUTE
IsLeafPte(pte) ==
    BitAnd(pte, PTE_VALID) # 0 /\ BitAnd(pte, PTE_READ + PTE_WRITE + PTE_EXECUTE) # 0

\* an execute-only mapping of a page of the page table region itself
PteX == BitOr(Shr(RegionBase + 5 * PAGE_SIZE, 2), PTE_VALID + PTE_EXECUTE)
\* a user read-write mapping
PteRW == BitOr(Shr(HPAGE_SIZE, 2), PTE_VALID + PTE_READ + PTE_WRITE + PTE_USER + PTE_AD)
LeafPtes == {PteX, PteRW}

\* two pages of one level-2 table, a page under another level-1 slot, and the
\* last page below the direct map
VaLow0 == VA(0, 0, 0, 0, 0)
VaLow1 == VA(0, 0, 0, 1, 0)
VaMid == VA(0, 0, 511, 0, 0)
VaHigh == VA(TOP_ONES, DIRECT_MAP_PT_INDEX \div 8 - 1, 511, 511, 0)
MapVAs == {VaLow0, VaLow1, VaMid, VaHigh}

\* the set_mapping calls made: <<root, va, pte>>
MapCalls ==
    { <<"UVA", VaLow0, PteX>>, <<"UVA", VaLow1, PteRW>>, <<"UVA", VaMid, PteRW>>,
      <<"KVA", VaLow0, PteRW>>, <<"MVA", VaHigh, PteX>> }

\* addresses pte_for_addr must refuse: bit 38 set under zero upper bits, bit 39
\* set alone, bit 38 clear under upper bits of ones (none of them Sv39), the
\* first address of the direct map and the last address of all
VaBit38 == VA(0, 256, 0, 0, 0)
VaBit39 == VA(1, 0, 0, 0, 0)
VaHole == VA(TOP_ONES, 100, 0, 0, 0)
VaTop == VA(TOP_ONES, 511, 511, 511, 4095)
BadVAs == {VaBit38, VaBit39, VaHole, DIRECT_MAP_OFFSET, VaTop}

\* PTEs a caller may pass that are no leaves: a pointer entry to the UVA root
\* (the second page PageTables::new allocates when no ramdisk is in the way), a
\* pointer entry to a page outside the region, and an entry with VALID clear
PtePointerToRoot == BitOr(Shr(RegionEnd - 2 * PAGE_SIZE, 2), PTE_VALID)
PtePointerOutside == BitOr(Shr(HPAGE_SIZE, 2), PTE_VALID + PTE_USER)
PteInvalid == BitOr(Shr(HPAGE_SIZE, 2), PTE_READ + PTE_WRITE)

\* set_mapping calls of a caller that keeps to no contract: <<root, va, pte>>
WildCalls ==
    { <<"UVA", VaLow0, PteRW>>, <<"KVA", VaLow1, PteInvalid>>,
      <<"UVA", VaLow0, PtePointerToRoot>>, <<"KVA", VaLow0, PtePointerOutside>>,
      <<"MPA", VaLow0, PteRW>>, <<"UVA", VaBit38, PteRW>>, <<"UVA", VaBit39, PteRW>>,
      <<"KVA", VaHole, PteRW>>, <<"KVA", DIRECT_MAP_OFFSET, PteRW>>,
      <<"MVA", VaTop, PteX>> }

\* what the region holds before PageTables::new: nothing, or stale words that
\* read as a pointer entry and as a leaf in slots 0, 1 and 511 of every page
Garbage ==
    LET junk == [a \in UNION { {pg, pg + 8, pg + 4088} : pg \in RegionPages } |->
                    IF a % PAGE_SIZE = 8
                    THEN BitOr(Shr(RegionBase, 2), PTE_VALID)
                    ELSE BitOr(Shr(RegionBase + PAGE_SIZE, 2), PTE_RWXV)]
    IN { EmptyMem, junk }

\* ------------------------------------------------------------ guest walk
\* the guest memory region: gpm_size bytes from its base address
GuestBase == 64 * PAGE_SIZE
GuestEnd == GuestBase + GuestPages * PAGE_SIZE
InGuestRegion(a) == a >= GuestBase /\ a < GuestEnd

\* MemoryRegion::get: the word at a, or nothing when a is outside the region;
\* touched lists the addresses whose memory was read
MemoryRegion_get(gm, a) ==
    IF InGuestRegion(a)
    THEN [some |-> TRUE, val |-> Read(gm, a), touched |-> <<a>>]
    ELSE [some |-> FALSE, val |-> 0, touched |-> <<>>]

\* GuestPa without the page offset of a 4KiB leaf
GuestPa_NoOffset(pte, addr, level) ==
    CASE level = 2 -> Shl(Shr(pte, 10), 12)
      [] level = 1 -> BitOr(Shl(Shr(pte, 19), 21), VaLow(addr, 21))
      [] level = 0 -> BitOr(Shl(Shr(pte, 28), 30), VaLow(addr, 30))

\* GuestPa that decodes every leaf as a 4KiB page
GuestPa_Always4K(pte, addr, level) ==
    BitOr(Shl(Shr(pte, 10), 12), VaLow(addr, 12))

\* the match on level that decodes a leaf
GuestPa(pte, addr, level) ==
    CASE level = 2 -> BitOr(Shl(Shr(pte, 10), 12), VaLow(addr, 12))
      [] level = 1 -> BitOr(Shl(Shr(pte, 19), 21), VaLow(addr, 21))
      [] level = 0 -> BitOr(Shl(Shr(pte, 28), 30), VaLow(addr, 30))

NoResult == [some |-> FALSE, guest_pa |-> 0, pte_addr |-> 0, pte_value |-> 0]

\* TranslateLevel reading guest memory by unchecked indexing
TranslateLevel_Unchecked(t, gm, addr, level) ==
    IF t.done THEN t
    ELSE LET pte_index == VaIndex(addr, 30 - 9 * level)
             pte_addr == t.page_table + pte_index * 8
             pte == Read(gm, pte_addr)
             t1 == [t EXCEPT !.asked = Append(@, pte_addr),
                             !.touched = Append(@, pte_addr)]
         IN IF BitAnd(pte, PTE_VALID) = 0
                    \/ (BitAnd(pte, PTE_WRITE) # 0 /\ BitAnd(pte, PTE_READ) = 0)
            THEN [t1 EXCEPT !.done = TRUE]
            ELSE IF BitAnd(pte, PTE_READ + PTE_EXECUTE) # 0
            THEN [t1 EXCEPT !.done = TRUE,
                            !.result = [some |-> TRUE,
                                        guest_pa |-> GuestPa(pte, addr, level),
                                        pte_addr |-> pte_addr,
                                        pte_value |-> pte]]
            ELSE [t1 EXCEPT !.page_table = Shl(Shr(pte, 10), 12)]

\* TranslateLevel without the WRITE-without-READ test
TranslateLevel_NoWriteCheck(t, gm, addr, level) ==
    IF t.done THEN t
    ELSE LET pte_index == VaIndex(addr, 30 - 9 * level)
             pte_addr == t.page_table + pte_index * 8
             got == MemoryRegion_get(gm, pte_addr)
             pte == got.val
             t1 == [t EXCEPT !.asked = Append(@, pte_addr),
                             !.touched = @ \o got.touched]
         IN IF ~got.some THEN [t1 EXCEPT !.done = TRUE]
            ELSE IF BitAnd(pte, PTE_VALID) = 0
            THEN [t1 EXCEPT !.done = TRUE]
            ELSE IF BitAnd(pte, PTE_READ + PTE_EXECUTE) # 0
            THEN [t1 EXCEPT !.done = TRUE,
                            !.result = [some |-> TRUE,
                                        guest_pa |-> GuestPa(pte, addr, level),
                                        pte_addr |-> pte_addr,
                                        pte_value |-> pte]]
            ELSE [t1 EXCEPT !.page_table = Shl(Shr(pte, 10), 12)]

\* one iteration of the loop of translate_guest_address; t is
\*   [page_table, done, result, asked, touched]
\* asked: the addresses handed to MemoryRegion::get, in order
TranslateLevel(t, gm, addr, level) ==
    IF t.done THEN t
    ELSE LET pte_index == VaIndex(addr, 30 - 9 * level)
             pte_addr == t.page_table + pte_index * 8
             got == MemoryRegion_get(gm, pte_addr)
             pte == got.val
             t1 == [t EXCEPT !.asked = Append(@, pte_addr),
                             !.touched = @ \o got.touched]
         IN IF ~got.some THEN [t1 EXCEPT !.done = TRUE]
            ELSE IF BitAnd(pte, PTE_VALID) = 0
                    \/ (BitAnd(pte, PTE_WRITE) # 0 /\ BitAnd(pte, PTE_READ) = 0)
            THEN [t1 EXCEPT !.done = TRUE]
            ELSE IF BitAnd(pte, PTE_READ + PTE_EXECUTE) # 0
            THEN [t1 EXCEPT !.done = TRUE,
                            !.result = [some |-> TRUE,
                                        guest_pa |-> GuestPa(pte, addr, level),
                                        pte_addr |-> pte_addr,
                                        pte_value |-> pte]]
            ELSE [t1 EXCEPT !.page_table = Shl(Shr(pte, 10), 12)]

translate_guest_address(gm, root_page_table, addr) ==
    LET t0 == [page_table |-> root_page_table, done |-> FALSE, result |-> NoResult,
               asked |-> <<>>, touched |-> <<>>]
    IN IF ~is_sv39(addr) \/ root_page_table % PAGE_SIZE # 0
       THEN [t0 EXCEPT !.done = TRUE]
       ELSE LET t1 == TranslateLevel(t0, gm, addr, 0)
                t2 == TranslateLevel(t1, gm, addr, 1)
                t3 == TranslateLevel(t2, gm, addr, 2)
            IN [t3 EXCEPT !.done = TRUE]

\* the guest's tables: one page for each level
GuestT0 == GuestBase
GuestT1 == GuestBase + PAGE_SIZE
GuestT2 == GuestBase + 2 * PAGE_SIZE

\* the addresses translated: a low-half address with every field set, the same
\* with bit 39 set (not Sv39), and a high-half address
GuestVa == VA(0, 1, 2, 3, 291)
GuestVaNotSv39 == VA(1, 1, 2, 3, 291)
GuestVaHigh == VA(TOP_ONES, 511, 2, 3, 4095)
GuestVAs == {GuestVa, GuestVaNotSv39, GuestVaHigh}

\* the roots translated from: the guest's root, a misaligned one, and pages
\* right after and below the guest region
GuestRootValues == {GuestT0, GuestT0 + 8, GuestEnd, 0}

PtePointer(page) == BitOr(Shr(page, 2), PTE_VALID)
PteLeaf(pa, flags) == BitOr(Shr(pa, 2), BitOr(PTE_VALID, flags))

\* what the guest stores into the slot of GuestVa at each level
GuestStoreValues(level) ==
    CASE level = 0 ->
           { 0, PtePointer(GuestT1), PtePointer(GuestEnd),
             PteLeaf(Pow2(30), PTE_READ + PTE_EXECUTE),
             PteLeaf(GuestT1, PTE_WRITE) }
      [] level = 1 ->
           { 0, PtePointer(GuestT2), PtePointer(0),
             PteLeaf(HPAGE_SIZE, PTE_READ + PTE_WRITE + PTE_USER + PTE_AD),
             PteLeaf(HPAGE_SIZE + PAGE_SIZE, PTE_EXECUTE),
             PteLeaf(GuestT2, PTE_WRITE + PTE_EXECUTE) }
      [] level = 2 ->
           { PTE_READ + PTE_WRITE, PtePointer(GuestT1),
             PteLeaf(GuestBase + 3 * PAGE_SIZE, PTE_READ),
             PteLeaf(GuestBase + 3 * PAGE_SIZE, PTE_EXECUTE),
             PteLeaf(5 * HPAGE_SIZE + PAGE_SIZE, PTE_RWXV + PTE_USER + PTE_AD),
             PteLeaf(GuestBase + 3 * PAGE_SIZE, PTE_WRITE),
             PteLeaf(GuestBase + 3 * PAGE_SIZE, PTE_WRITE + PTE_EXECUTE) }

\* the slot of GuestVa in the guest's table of the level
GuestSlot(level) ==
    CASE level = 0 -> GuestT0 + 1 * 8
      [] level = 1 -> GuestT1 + 2 * 8
      [] level = 2 -> GuestT2 + 3 * 8

\* the guest's stores, <<address, word>>: the slots of GuestVa, and the root
\* slot of GuestVaHigh
GuestStores ==
    UNION { {<<GuestSlot(level), val>> : val \in GuestStoreValues(level)} :
            level \in 0..2 }
    \cup { <<GuestT0 + 511 * 8, 0>>, <<GuestT0 + 511 * 8, PtePointer(GuestT1)>> }

NoTranslation ==
    [op |-> "none", root_page_table |-> 0, addr |-> VA(0, 0, 0, 0, 0),
     result |-> NoResult, asked |-> <<>>, touched |-> <<>>]

\* the free list as the sequence of its pages, head first; at most fuel pages
RECURSIVE FreeListSeq(_, _, _)
FreeListSeq(mem0, head, fuel) ==
    IF head = NULL_PAGE_PTR \/ fuel = 0 THEN <<>>
    ELSE <<head>> \o FreeListSeq(mem0, Read(mem0, head), fuel - 1)

\* ------------------------------------------------------------ state
VARIABLES
    pc,                \* "boot", "constructed", "run" or "halted"
    machine,           \* the boot loader's hand-over
    mem,               \* memory of the page table region
    root_page_tables,  \* PageTables.root_page_tables
    free_list_head,    \* PageTables.free_list_head
    satp,              \* the satp register
    halt,              \* why the hypervisor halted, or "none"
    log,               \* alloc_page / free_page calls of the last operation
    depth,             \* nesting of clear_page_table_range in the last operation
    last,              \* the last operation and its arguments
    stack,             \* the free pages as an abstract stack, top first
    lifo,              \* every alloc_page so far returned the top of stack
    gmem,              \* memory of the guest region, written by the guest
    tr,                \* the last translate_guest_address call and its result
    free_after_init,   \* length of the free list when init returned
    pointer_installed  \* some set_mapping call installed a pointer entry

shadow_vars == <<pc, machine, mem, root_page_tables, free_list_head, satp, halt,
                 log, depth, last, stack, lifo, free_after_init, pointer_installed>>
guest_vars == <<gmem, tr>>
vars == <<shadow_vars, guest_vars>>

\* the PageTables value an operation starts from
Cur ==
    [mem |-> mem, root_page_tables |-> root_page_tables,
     free_list_head |-> free_list_head, halt |-> "none", log |-> <<>>, depth |-> 0]

\* the abstract stack after the calls of a log
RECURSIVE Replay(_, _)
Replay(stk, lg) ==
    IF lg = <<>> THEN stk
    ELSE IF Head(lg).op = "free" THEN Replay(<<Head(lg).page>> \o stk, Tail(lg))
    ELSE Replay(IF stk = <<>> THEN stk ELSE Tail(stk), Tail(lg))

\* every alloc_page of a log returned the top of the abstract stack
RECURSIVE ReplayLifo(_, _)
ReplayLifo(stk, lg) ==
    IF lg = <<>> THEN TRUE
    ELSE IF Head(lg).op = "free" THEN ReplayLifo(<<Head(lg).page>> \o stk, Tail(lg))
    ELSE /\ stk # <<>>
         /\ Head(lg).page = Head(stk)
         /\ ReplayLifo(Tail(stk), Tail(lg))

\* the variables after an operation that ended in st
Commit(st, next_pc) ==
    /\ mem' = st.mem
    /\ root_page_tables' = st.root_page_tables
    /\ free_list_head' = st.free_list_head
    /\ halt' = st.halt
    /\ log' = st.log
    /\ depth' = st.depth
    /\ stack' = Replay(stack, st.log)
    /\ lifo' = (lifo /\ ReplayLifo(stack, st.log))
    /\ pc' = IF st.halt # "none" THEN "halted" ELSE next_pc

NoOp == [op |-> "none", root |-> "none", va |-> VA(0, 0, 0, 0, 0), pte |-> 0,
         addr |-> 0, repeat |-> FALSE, before |-> <<>>,
         written |-> FALSE, fenced |-> FALSE]

Init ==
    /\ pc = "boot"
    /\ machine \in Machines
    /\ mem \in Garbage
    /\ root_page_tables = <<0, 0, 0, 0>>
    /\ free_list_head = NULL_PAGE_PTR
    /\ satp = [mode |-> SATP_MODE_SV39, ppn |-> BOOT_PAGE_TABLE_PPN]
    /\ halt = "none"
    /\ log = <<>>
    /\ depth = 0
    /\ last = NoOp
    /\ stack = <<>>
    /\ lifo = TRUE
    /\ gmem = EmptyMem
    /\ tr = NoTranslation
    /\ free_after_init = 0
    /\ pointer_installed = FALSE

\* PageTables::new, called by init
New ==
    /\ pc = "boot"
    /\ LET st == PageTables_new(mem, RegionBase, RegionEnd,
                                machine.initrd_start, machine.initrd_end)
       IN Commit(st, "constructed")
    /\ last' = [NoOp EXCEPT !.op = "new", !.before = log]
    /\ UNCHANGED <<machine, satp, guest_vars, free_after_init, pointer_installed>>

\* the rest of init
InitTables ==
    /\ pc = "constructed"
    /\ LET st == init(Cur, machine)
       IN /\ Commit(st, "run")
          /\ satp' = install_root(st, "MPA", satp).satp
          /\ free_after_init' = Len(FreeListSeq(st.mem, st.free_list_head, NumPages + 1))
    /\ last' = [NoOp EXCEPT !.op = "init", !.before = log]
    /\ UNCHANGED <<machine, guest_vars, pointer_installed>>

SetMapping(root, va, pte) ==
    /\ pc = "run"
    /\ LET r == pte_for_addr(Cur, root, va)
       IN /\ Commit(set_mapping(Cur, root, va, pte), "run")
          /\ last' = [NoOp EXCEPT
                        !.op = "set_mapping", !.root = root, !.va = va, !.pte = pte,
                        !.addr = r.addr,
                        !.repeat = (last.op = "set_mapping" /\ last.root = root
                                    /\ last.va = va),
                        !.before = log]
          /\ pointer_installed' =
                (pointer_installed
                    \/ (r.st.halt = "none" /\ BitAnd(pte, PTE_RWXV) = PTE_VALID))
    /\ UNCHANGED <<machine, satp, guest_vars, free_after_init>>

Flush ==
    /\ pc = "run"
    /\ Commit(flush_shadow_page_table(Cur), "run")
    /\ last' = [NoOp EXCEPT !.op = "flush", !.before = log]
    /\ UNCHANGED <<machine, satp, guest_vars, free_after_init, pointer_installed>>

Next ==
    \/ New
    \/ InitTables
    \/ \E c \in MapCalls : SetMapping(c[1], c[2], c[3])
    \/ Flush

Spec == Init /\ [][Next]_vars

\* install_root, called by whoever switches address space
InstallRoot(root) ==
    /\ pc = "run"
    /\ Commit(Cur, "run")
    /\ LET r == install_root(Cur, root, satp)
       IN /\ satp' = r.satp
          /\ last' = [NoOp EXCEPT
                        !.op = "install_root", !.root = root,
                        !.repeat = (last.op = "install_root" /\ last.root = root),
                        !.before = log,
                        !.written = r.written, !.fenced = r.fenced]
    /\ UNCHANGED <<machine, guest_vars, free_after_init, pointer_installed>>

\* the guest stores a word into one of its page tables
GuestStore(a, val) ==
    /\ gmem' = Write(gmem, a, val)
    /\ tr' = NoTranslation
    /\ UNCHANGED shadow_vars

Translate(root_page_table, addr) ==
    /\ LET t == translate_guest_address(gmem, root_page_table, addr)
       IN tr' = [op |-> "translate", root_page_table |-> root_page_table,
                 addr |-> addr, result |-> t.result, asked |-> t.asked,
                 touched |-> t.touched]
    /\ UNCHANGED <<gmem, shadow_vars>>

NextG ==
    \/ \E g \in GuestStores : GuestStore(g[1], g[2])
    \/ \E root_page_table \in GuestRootValues, addr \in GuestVAs :
          Translate(root_page_table, addr)

\* the guest side alone: the guest writes its tables, the hypervisor walks them
InitG ==
    /\ Init
    /\ machine.initrd_end = 0
    /\ mem = EmptyMem

SpecG == InitG /\ [][NextG]_vars

\* the shadow tables under a caller that keeps to no contract, and the
\* address space switches
\* The caller is followed up to the first flush_shadow_page_table after it
\* installed a pointer entry: that flush frees pages that are no tables, and
\* what the region holds from there on is not bounded by the region's size.
Followed == ~(pointer_installed /\ last.op = "flush")

NextW ==
    \/ New
    \/ InitTables
    \/ \E c \in WildCalls : Followed /\ SetMapping(c[1], c[2], c[3])
    \/ Followed /\ Flush
    \/ \E root \in Roots : Followed /\ InstallRoot(root)

SpecW == InitG /\ [][NextW]_vars

\* a machine without guest physical memory: init allocates no table under the
\* MPA root, and all pages but the roots are left for the shadow tables
NoGuestMachine ==
    [initrd_start |-> 0, initrd_end |-> 0, gpm_size |-> 0, guest_shift_hp |-> 0]

\* set_mapping calls for two pages of one table and for the first of them
\* under a second and a third root
AliasCalls ==
    { <<"UVA", VaLow0, PteX>>, <<"UVA", VaLow1, PteRW>>, <<"KVA", VaLow0, PteRW>>,
      <<"MVA", VaLow0, PteRW>> }

InitA ==
    /\ pc = "boot"
    /\ machine = NoGuestMachine
    /\ mem = EmptyMem
    /\ root_page_tables = <<0, 0, 0, 0>>
    /\ free_list_head = NULL_PAGE_PTR
    /\ satp = [mode |-> SATP_MODE_SV39, ppn |-> BOOT_PAGE_TABLE_PPN]
    /\ halt = "none"
    /\ log = <<>>
    /\ depth = 0
    /\ last = NoOp
    /\ stack = <<>>
    /\ lifo = TRUE
    /\ gmem = EmptyMem
    /\ tr = NoTranslation
    /\ free_after_init = 0
    /\ pointer_installed = FALSE

NextA ==
    \/ New
    \/ InitTables
    \/ \E c \in AliasCalls : SetMapping(c[1], c[2], c[3])
    \/ Flush

\* the shadow tables with room for the tables of two roots at once
SpecA == InitA /\ [][NextA]_vars


\* ------------------------------------------------------------ ownership
FreeList == FreeListSeq(mem, free_list_head, NumPages + 1)

IsPointerPte(pte) == BitAnd(pte, PTE_RWXV) = PTE_VALID
ChildOf(pte) == Shl(Shr(pte, 10), 12)
PageOf(a) == a - (a % PAGE_SIZE)

\* the slots of the given table pages that hold a valid pointer entry
PointerSlots(tables) ==
    {a \in DOMAIN mem : PageOf(a) \in tables /\ IsPointerPte(mem[a])}

RootPages == {root_page_tables[i] : i \in 1..4} \ {0}
Level1Tables == {ChildOf(mem[a]) : a \in PointerSlots(RootPages)}
Level2Tables == {ChildOf(mem[a]) : a \in PointerSlots(Level1Tables)}
TablePages == RootPages \cup Level1Tables \cup Level2Tables
AllPointerSlots == PointerSlots(TablePages)

FreeCount(p) == Cardinality({i \in 1..Len(FreeList) : FreeList[i] = p})
RootCount(p) == Cardinality({i \in 1..4 : root_page_tables[i] = p})
RefCount(p) == Cardinality({a \in AllPointerSlots : ChildOf(mem[a]) = p})

\* the page overlaps the init ramdisk, so PageTables::new left it alone
InInitrd(p) ==
    ~(p + PAGE_SIZE <= machine.initrd_start \/ p >= machine.initrd_end)

Constructed == pc # "boot" /\ ~(last.op = "new" /\ halt # "none")
InitDone == last.op \in {"set_mapping", "flush"} \/ (last.op = "init" /\ halt = "none")

\* C1 as stated: every page of the region is on the free list once, or one
\* root, or the child of one pointer entry, and nothing else.
C1_EveryPageOwnedOnce ==
    Constructed =>
        \A p \in RegionPages : FreeCount(p) + RootCount(p) + RefCount(p) = 1

\* C1 amended: every page of the region that does not overlap the init
\* ramdisk is on the free list once, or one root, or the child of one pointer
\* entry, and nothing else; a page that overlaps the init ramdisk is none of
\* these.
C1_SeededPageOwnedOnce ==
    Constructed =>
        \A p \in RegionPages :
            FreeCount(p) + RootCount(p) + RefCount(p) = IF InInitrd(p) THEN 0 ELSE 1

C1_Witness ==
    /\ pc = "run"
    /\ last.op = "set_mapping"
    /\ Len(log) = 2
    /\ \E i \in 1..Len(last.before) : last.before[i].op = "free"
    /\ \E p \in RegionPages : InInitrd(p)
    /\ \E p \in RegionPages : RootCount(p) = 1
    /\ \E p \in RegionPages : RefCount(p) = 1 /\ p \in Level2Tables

\* ------------------------------------------------------------ flush, walk
Allocs(lg) == SelectSeq(lg, LAMBDA e : e.op = "alloc")
Frees(lg) == SelectSeq(lg, LAMBDA e : e.op = "free")

\* C2: right after flush_shadow_page_table, slots 0..495 of the UVA, KVA and
\* MVA roots hold 0, and with two pages free a walk for any admissible address
\* allocates two pages: the first becomes the child of the root's slot, the
\* returned leaf slot lies in the second.
C2_FlushReclaimsAll ==
    (pc = "run" /\ last.op = "flush") =>
        /\ \A root \in ShadowRoots : \A i \in 0..(DIRECT_MAP_PT_INDEX \div 8 - 1) :
              Read(mem, root_pa(Cur, root) + i * 8) = 0
        /\ Len(FreeList) >= 2 =>
              \A root \in ShadowRoots, va \in MapVAs :
                  LET r == pte_for_addr(Cur, root, va)
                      a == Allocs(r.st.log)
                  IN /\ r.st.halt = "none"
                     /\ Len(a) = 2
                     /\ a[1].page = FreeList[1] /\ a[2].page = FreeList[2]
                     /\ ChildOf(Read(r.st.mem,
                                root_pa(Cur, root) + VaIndex(va, 30) * 8)) = a[1].page
                     /\ PageOf(r.addr) = a[2].page

C2_Witness ==
    /\ pc = "run"
    /\ last.op = "flush"
    /\ Len(Frees(log)) >= 2
    /\ Len(FreeList) >= 2

\* C3: a second pte_for_addr for the same root and address returns the same
\* leaf slot, allocates nothing and changes neither memory nor the free list.
C3_WalkIdempotent ==
    pc = "run" =>
        \A root \in ShadowRoots, va \in MapVAs :
            LET r1 == pte_for_addr(Cur, root, va)
                r2 == pte_for_addr([r1.st EXCEPT !.log = <<>>], root, va)
            IN r1.st.halt = "none" =>
                  /\ r2.st.halt = "none"
                  /\ r2.addr = r1.addr
                  /\ r2.st.log = <<>>
                  /\ r2.st.mem = r1.st.mem
                  /\ r2.st.free_list_head = r1.st.free_list_head

C3_Witness ==
    /\ pc = "run"
    /\ last.op = "set_mapping"
    /\ last.repeat
    /\ log = <<>>
    /\ Len(Allocs(last.before)) = 2
    /\ last.va = VaHigh

\* ------------------------------------------------------------ allocator
\* C4: the free list in memory is the abstract stack of freed pages: every
\* alloc_page returned the page freed last among those not yet allocated
\* again, and no page is on the list twice.
C4_FreeListIsStack ==
    Constructed =>
        /\ lifo
        /\ FreeList = stack
        /\ \A i, j \in 1..Len(stack) : stack[i] = stack[j] => i = j

\* a flush freed pages A then B last, and the next walk got B then A
C4_Witness ==
    /\ pc = "run"
    /\ last.op = "set_mapping"
    /\ Len(log) = 2
    /\ Len(last.before) >= 2
    /\ LET n == Len(last.before)
       IN /\ last.before[n].op = "free" /\ last.before[n - 1].op = "free"
          /\ log[1].op = "alloc" /\ log[1].page = last.before[n].page
          /\ log[2].op = "alloc" /\ log[2].page = last.before[n - 1].page

\* C5: every page alloc_page returned had all 512 slots 0 when it was
\* returned.
C5_AllocReturnsZeroedPage ==
    \A i \in 1..Len(log) : log[i].op = "alloc" => log[i].zeroed

\* a page with stale words beyond its link slot was allocated by a walk
C5_Witness ==
    /\ last.op = "set_mapping"
    /\ \E i \in 1..Len(log) : log[i].op = "alloc" /\ log[i].stale /\ log[i].zeroed

\* ------------------------------------------------------------ direct map
DirectMapPte(i) == Shl(i, 28) + PTE_AD + PTE_RWXV
HypervisorPte == HYPERVISOR_PTE_BASE + PTE_AD + PTE_RWXV

\* C10: once init is done, slots 496..499 of each of the four roots hold the
\* 1GiB leaves of physical regions 0..3 with A, D, R, W, X, V, and slot 511
\* holds the hypervisor code leaf, whatever set_mapping and
\* flush_shadow_page_table calls were made.
C10_DirectMapKept ==
    InitDone =>
        \A root \in Roots :
            /\ \A i \in 0..3 :
                  Read(mem, root_pa(Cur, root) + (496 + i) * 8) = DirectMapPte(i)
            /\ Read(mem, root_pa(Cur, root) + 511 * 8) = HypervisorPte

C10_Witness ==
    /\ pc = "run"
    /\ last.op = "flush"
    /\ depth = 3
    /\ \A root \in Roots :
          Read(mem, root_pa(Cur, root) + 499 * 8) = DirectMapPte(3)

\* ------------------------------------------------------------ guest walk claims
\* the walk the paging scheme prescribes for the last call: the slot of each
\* level, following the pointer entries in guest memory
SlotAt0 == tr.root_page_table + VaIndex(tr.addr, 30) * 8
SlotAt1 == ChildOf(Read(gmem, SlotAt0)) + VaIndex(tr.addr, 21) * 8
SlotAt2 == ChildOf(Read(gmem, SlotAt1)) + VaIndex(tr.addr, 12) * 8

Accepted ==
    tr.op = "translate" /\ is_sv39(tr.addr) /\ tr.root_page_table % PAGE_SIZE = 0

\* valid in-region pointer entries at levels 0 and 1, so that level 2 is read
ReachesLevel2 ==
    /\ Accepted
    /\ InGuestRegion(SlotAt0) /\ IsPointerPte(Read(gmem, SlotAt0))
    /\ InGuestRegion(SlotAt1) /\ IsPointerPte(Read(gmem, SlotAt1))
    /\ InGuestRegion(SlotAt2)

\* C6: translate_guest_address read guest memory inside the guest region only,
\* and a PTE address outside the region ended the walk with None.
C6_ReadsInsideRegion ==
    tr.op = "translate" =>
        /\ \A i \in 1..Len(tr.touched) : InGuestRegion(tr.touched[i])
        /\ \A i \in 1..Len(tr.asked) :
              ~InGuestRegion(tr.asked[i]) => i = Len(tr.asked) /\ ~tr.result.some

\* a pointer entry at level 0 led to a level-1 slot outside the region
C6_Witness ==
    /\ Accepted
    /\ Len(tr.asked) = 2
    /\ InGuestRegion(tr.asked[1]) /\ IsPointerPte(Read(gmem, tr.asked[1]))
    /\ ~InGuestRegion(tr.asked[2])
    /\ tr.touched = <<tr.asked[1]>>
    /\ ~tr.result.some

RoundTrip(E) ==
    tr.result = [some |-> TRUE,
                 guest_pa |-> BitOr(Shl(Shr(E, 10), 12), VaLow(tr.addr, 12)),
                 pte_addr |-> SlotAt2,
                 pte_value |-> E]

\* C7 as stated: with pointer entries at levels 0 and 1 and an entry E at
\* level 2 that is VALID with at least one of READ, WRITE, EXECUTE, the result
\* is Some of ((E >> 10) << 12) | (va & 0xfff), the level-2 slot and E.
C7_RoundTripAnyLeaf ==
    (ReachesLevel2 /\ IsLeafPte(Read(gmem, SlotAt2))) => RoundTrip(Read(gmem, SlotAt2))

\* VALID, READ or EXECUTE set, and not WRITE without READ
IsReadableLeafPte(pte) ==
    /\ BitAnd(pte, PTE_VALID) # 0
    /\ BitAnd(pte, PTE_READ + PTE_EXECUTE) # 0
    /\ ~(BitAnd(pte, PTE_WRITE) # 0 /\ BitAnd(pte, PTE_READ) = 0)

\* C7 amended: with pointer entries at levels 0 and 1 and an entry E at level 2
\* that is VALID with READ or EXECUTE set and not WRITE without READ, the
\* result is Some of ((E >> 10) << 12) | (va & 0xfff), the level-2 slot and E;
\* a VALID entry E with WRITE set and READ clear gives None.
C7_RoundTripReadableLeaf ==
    LET E == Read(gmem, SlotAt2)
    IN ReachesLevel2 =>
          /\ IsReadableLeafPte(E) => RoundTrip(E)
          /\ (IsLeafPte(E) /\ ~IsReadableLeafPte(E)) => ~tr.result.some

C7_Witness ==
    /\ ReachesLevel2
    /\ BitAnd(Read(gmem, SlotAt2), PTE_RWXV + PTE_USER) = PTE_RWXV + PTE_USER
    /\ tr.result.some
    /\ tr.result.guest_pa = 5 * HPAGE_SIZE + PAGE_SIZE + 291

\* C8: a leaf found at level 1 with a 2MiB-aligned base P gives
\* P | (va & 0x1fffff), a leaf found at level 0 with a 1GiB-aligned base P
\* gives P | (va & 0x3fffffff).
C8_SuperpageDecoding ==
    (Accepted /\ tr.result.some) =>
        LET P == Shl(Shr(tr.result.pte_value, 10), 12)
        IN /\ (Len(tr.asked) = 2 /\ P % HPAGE_SIZE = 0) =>
                 tr.result.guest_pa = BitOr(P, VaLow(tr.addr, 21))
           /\ (Len(tr.asked) = 1 /\ P % Pow2(30) = 0) =>
                 tr.result.guest_pa = BitOr(P, VaLow(tr.addr, 30))

\* the high-half address was translated through a 2MiB leaf
C8_Witness ==
    /\ Accepted
    /\ tr.addr = GuestVaHigh
    /\ tr.result.some
    /\ Len(tr.asked) = 2
    /\ tr.result.guest_pa = HPAGE_SIZE + 3 * PAGE_SIZE + 4095

IsMalformedPte(pte) ==
    BitAnd(pte, PTE_VALID) = 0
    \/ (BitAnd(pte, PTE_WRITE) # 0 /\ BitAnd(pte, PTE_READ) = 0)

\* C9: an entry fetched at any level with VALID clear, or with WRITE set and
\* READ clear, ended the walk there with None; and pointer entries at all three
\* levels give None.
C9_NoResultOnBadEntry ==
    Accepted =>
        /\ \A i \in 1..Len(tr.asked) :
              (InGuestRegion(tr.asked[i]) /\ IsMalformedPte(Read(gmem, tr.asked[i])))
                  => i = Len(tr.asked) /\ ~tr.result.some
        /\ (ReachesLevel2 /\ IsPointerPte(Read(gmem, SlotAt2))) => ~tr.result.some

\* a VALID entry with WRITE and EXECUTE but not READ was fetched at level 1
C9_Witness ==
    /\ Accepted
    /\ Len(tr.asked) = 2
    /\ InGuestRegion(tr.asked[2])
    /\ BitAnd(Read(gmem, tr.asked[2]), PTE_RWXV) = PTE_VALID + PTE_WRITE + PTE_EXECUTE
    /\ ~tr.result.some

\* ------------------------------------------------------------ pointer entries
IsValidPte(pte) == BitAnd(pte, PTE_VALID) # 0
HasPermission(pte) == BitAnd(pte, PTE_READ + PTE_WRITE + PTE_EXECUTE) # 0

\* the slots of a root that pte_for_addr can read: those below the direct map
WalkedRootSlots(root) ==
    {a \in DOMAIN mem : /\ PageOf(a) = root_pa(Cur, root)
                        /\ a - root_pa(Cur, root) < DIRECT_MAP_PT_INDEX}

\* the slots pte_for_addr can read at the second level under a root
WalkedLevel1Slots(root) ==
    LET tables == {ChildOf(mem[a]) : a \in {x \in WalkedRootSlots(root) :
                                                IsValidPte(mem[x])}}
    IN {a \in DOMAIN mem : PageOf(a) \in tables}

\* C11: once init is done, whatever set_mapping (with leaf PTEs) and
\* flush_shadow_page_table calls were made, no operation halted on an
\* assertion, every valid entry in a slot pte_for_addr can read at the top or
\* at the second level of the UVA, KVA and MVA roots has READ, WRITE and
\* EXECUTE clear, and no walk for an admissible address fails its assertion.
C11_PointerAssertionHolds ==
    /\ halt # "assert"
    /\ InitDone =>
          \A root \in ShadowRoots :
              /\ \A a \in WalkedRootSlots(root) \cup WalkedLevel1Slots(root) :
                    IsValidPte(mem[a]) => ~HasPermission(mem[a])
              /\ \A va \in MapVAs : pte_for_addr(Cur, root, va).st.halt # "assert"

\* a walk read a valid entry at both levels and went through
C11_Witness ==
    /\ pc = "run"
    /\ last.op = "set_mapping"
    /\ last.repeat
    /\ last.va = VaMid
    /\ log = <<>>
    /\ IsLeafPte(Read(mem, last.addr))
    /\ \E a \in WalkedLevel1Slots(last.root) : IsValidPte(mem[a])

C13_InitrdPagesNeverUsed ==
    /\ \A i \in 1..Len(log) : ~InInitrd(log[i].page)
    /\ last.op = "new" =>
          \A p \in RegionPages :
              ~InInitrd(p) => \E i \in 1..Len(log) : log[i] = [op |-> "free", page |-> p,
                                                             zeroed |-> FALSE, stale |-> FALSE]
    /\ Constructed =>
          \A p \in RegionPages :
              InInitrd(p) => /\ \A i \in 1..Len(FreeList) : FreeList[i] # p
                             /\ p \notin TablePages

\* with a ramdisk in the region, a walk took the last free pages
C13_Witness ==
    /\ pc = "run"
    /\ last.op = "set_mapping"
    /\ \E p \in RegionPages : InInitrd(p)
    /\ Len(Allocs(log)) = 2
    /\ FreeList = <<>>

\* ------------------------------------------------------------ guest physical memory
\* the 2MiB pages of guest physical memory, as virtual page numbers in 2MiB
\* pages under the MPA root
GuestHPages ==
    {GPM_OFFSET_HPAGES + p : p \in 0..(machine.gpm_size \div HPAGE_SIZE - 1)}

\* the entry of the MPA root for the 2MiB page va_hp, at index va >> 30
MpaTopEntry(va_hp) == Read(mem, root_pa(Cur, "MPA") + Shr(va_hp, 9) * 8)

\* the level-1 entry for va_hp, at index (va >> 21) & 0x1ff
MpaLeaf(va_hp) == Read(mem, ChildOf(MpaTopEntry(va_hp)) + (va_hp % 512) * 8)

\* C14: once init is done, for every 2MiB page of guest physical memory, at
\* va = gpm_offset + p * 2MiB, the MPA root's entry at index va >> 30 is a valid
\* pointer entry to a page of the region, and the level-1 entry at index
\* (va >> 21) & 0x1ff is a leaf whose page number is (va + guest_shift) >> 12
\* and whose low ten bits are exactly A, D, U, R, W, X, V; init allocated one
\* level-1 table for each 1GiB region that holds a page of guest memory.
C14_GuestMemoryMapped ==
    /\ InitDone =>
          \A va_hp \in GuestHPages :
              /\ IsPointerPte(MpaTopEntry(va_hp))
              /\ ChildOf(MpaTopEntry(va_hp)) \in RegionPages
              /\ Shr(MpaLeaf(va_hp), 10) = (va_hp + machine.guest_shift_hp) * 512
              /\ MpaLeaf(va_hp) % 1024 = PTE_AD + PTE_USER + PTE_RWXV
    /\ (last.op = "init" /\ halt = "none") =>
          /\ Len(Allocs(log)) = Cardinality({Shr(va_hp, 9) : va_hp \in GuestHPages})
          /\ Len(Frees(log)) = 0

\* init mapped two 2MiB pages of shifted guest memory through one table
C14_Witness ==
    /\ last.op = "init"
    /\ halt = "none"
    /\ Cardinality(GuestHPages) >= 2
    /\ machine.guest_shift_hp # 0
    /\ Len(Allocs(log)) = 1
    /\ MpaLeaf(GPM_OFFSET_HPAGES + 1) # 0
    /\ ChildOf(MpaTopEntry(GPM_OFFSET_HPAGES)) = ChildOf(MpaTopEntry(GPM_OFFSET_HPAGES + 1))

\* ------------------------------------------------------------ refused walks
\* bits 63..39 of va all equal bit 38
SignExtended39(va) ==
    \/ va.top = 0 /\ va.vpn2 < 256
    \/ va.top = TOP_ONES /\ va.vpn2 >= 256

\* va >= DIRECT_MAP_OFFSET, va no sign-extended 39-bit address, or root MPA
Refused(root, va) ==
    \/ ~VaLess(va, DIRECT_MAP_OFFSET)
    \/ ~SignExtended39(va)
    \/ root = "MPA"

\* C15: a set_mapping call, and so its pte_for_addr, with va >= DIRECT_MAP_OFFSET,
\* with a va that is no sign-extended 39-bit address or with the MPA root halts
\* on an assertion, having called neither alloc_page nor free_page and having
\* changed no word of the region, nor the free list head, nor the roots.
C15_RefusedBeforeAnyChange ==
    [][(last'.op = "set_mapping" /\ Refused(last'.root, last'.va)) =>
          /\ halt' = "assert"
          /\ pc' = "halted"
          /\ log' = <<>>
          /\ mem' = mem
          /\ free_list_head' = free_list_head
          /\ root_page_tables' = root_page_tables]_vars

\* a call with upper bits of ones over a clear bit 38 halted, after a call that
\* had allocated tables
C15_Witness ==
    /\ pc = "halted"
    /\ halt = "assert"
    /\ last.op = "set_mapping"
    /\ last.va = VaHole
    /\ log = <<>>
    /\ Len(Allocs(last.before)) = 2

\* ------------------------------------------------------------ out of memory
\* the pages PageTables::new frees
UsablePages == {p \in RegionPages : ~InInitrd(p)}

\* the tables a walk for va under root finds missing
PagesNeeded(root, va) ==
    LET e0 == Read(mem, root_pa(Cur, root) + VaIndex(va, 30) * 8)
        e1 == Read(mem, ChildOf(e0) + VaIndex(va, 21) * 8)
    IN IF ~IsValidPte(e0) THEN 2 ELSE IF ~IsValidPte(e1) THEN 1 ELSE 0

\* C16: alloc_page halts exactly when free_list_head is NULL_PAGE_PTR, and
\* then returns no page and changes nothing. So PageTables::new halts exactly
\* when fewer than four pages are usable, after allocating them all; a walk
\* halts exactly when it finds more tables missing than pages are free, after
\* taking every free page; and no alloc_page call ever returned the sentinel.
C16_OomExactlyWhenEmpty ==
    /\ LET a == alloc_page(Cur)
       IN /\ (a.st.halt = "oom") = (free_list_head = NULL_PAGE_PTR)
          /\ a.st.halt = "oom" => (a.st.log = <<>> /\ a.st.mem = mem)
          /\ a.st.halt # "oom" => (a.page = free_list_head /\ a.st.halt = "none")
    /\ halt = "oom" => (pc = "halted" /\ free_list_head = NULL_PAGE_PTR)
    /\ \A i \in 1..Len(log) : log[i].op = "alloc" => log[i].page \in RegionPages
    /\ last.op = "new" =>
          /\ (halt = "oom") = (Cardinality(UsablePages) < 4)
          /\ halt = "oom" => Len(Allocs(log)) = Cardinality(UsablePages)
    /\ pc = "run" =>
          \A root \in ShadowRoots, va \in MapVAs :
              LET r == pte_for_addr(Cur, root, va)
              IN /\ (r.st.halt = "oom") = (PagesNeeded(root, va) > Len(FreeList))
                 /\ r.st.halt = "oom" =>
                       /\ Len(Allocs(r.st.log)) = Len(FreeList)
                       /\ r.st.free_list_head = NULL_PAGE_PTR

\* a walk that needed two tables took the last free page and halted
C16_Witness ==
    /\ pc = "halted"
    /\ halt = "oom"
    /\ last.op = "set_mapping"
    /\ Len(Allocs(log)) = 1
    /\ free_list_head = NULL_PAGE_PTR

\* ------------------------------------------------------------ install_root
\* C17: install_root(root) leaves satp holding mode 8 and root_pa(root) >> 12;
\* it writes satp and issues the fence exactly when satp held another value
\* before, so a second install_root of the same root right after the first
\* does neither; it changes nothing of the page tables.
C17_InstallRootWritesOnChange ==
    [][last'.op = "install_root" =>
          LET new_satp == [mode |-> 8, ppn |-> root_pa(Cur, last'.root) \div 4096]
          IN /\ satp' = new_satp
             /\ last'.written = (satp # new_satp)
             /\ last'.fenced = (satp # new_satp)
             /\ (last.op = "install_root" /\ last.root = last'.root) =>
                    (~last'.written /\ ~last'.fenced)
             /\ <<mem, root_page_tables, free_list_head>>' =
                    <<mem, root_page_tables, free_list_head>>]_vars

\* the KVA root was installed twice in a row: the second call wrote nothing
C17_Witness ==
    /\ last.op = "install_root"
    /\ last.root = "KVA"
    /\ last.repeat
    /\ ~last.written
    /\ ~last.fenced
    /\ satp = [mode |-> 8, ppn |-> root_pa(Cur, "KVA") \div 4096]
    /\ \A other \in Roots \ {"KVA"} : root_pa(Cur, other) # root_pa(Cur, "KVA")

\* ------------------------------------------------------------ frame
\* the children of the pointer entries that memory m holds in the given pages
ChildrenIn(m, pages) ==
    {ChildOf(m[a]) : a \in {x \in DOMAIN m : PageOf(x) \in pages /\ IsPointerPte(m[x])}}

\* the table pages under the root page rp in memory m: the root, its level-1
\* tables and their level-2 tables
TablesUnder(m, rp) ==
    LET l1 == ChildrenIn(m, {rp})
    IN {rp} \cup l1 \cup ChildrenIn(m, l1)

\* memories m1 and m2 hold the same words in the given pages
SamePages(m1, m2, pages) ==
    \A a \in (DOMAIN m1) \cup (DOMAIN m2) :
        PageOf(a) \in pages => Read(m1, a) = Read(m2, a)

\* the pages in which m1 and m2 differ
PagesChanged(m1, m2) ==
    {PageOf(a) : a \in {x \in (DOMAIN m1) \cup (DOMAIN m2) : Read(m1, x) # Read(m2, x)}}

\* C18: set_mapping(R, va, pte) leaves the four root addresses and every word of
\* the tables under each root other than R as they were, and changes words
\* only in pages that are tables under R afterwards or were on the free list
\* before; flush_shadow_page_table leaves the root addresses and every word of
\* the tables under the MPA root as they were, and changes words only in
\* tables that were under the UVA, KVA and MVA roots.
C18_OtherRootsUntouched ==
    [][/\ last'.op = "set_mapping" =>
             /\ root_page_tables' = root_page_tables
             /\ \A other \in Roots \ {last'.root} :
                   SamePages(mem, mem', TablesUnder(mem, root_pa(Cur, other)))
             /\ PagesChanged(mem, mem') \subseteq
                   TablesUnder(mem', root_pa(Cur, last'.root))
                      \cup {FreeList[i] : i \in 1..Len(FreeList)}
       /\ last'.op = "flush" =>
             /\ root_page_tables' = root_page_tables
             /\ SamePages(mem, mem', TablesUnder(mem, root_pa(Cur, "MPA")))
             /\ PagesChanged(mem, mem') \subseteq
                   UNION {TablesUnder(mem, root_pa(Cur, root)) : root \in ShadowRoots}
      ]_vars

\* a walk under the UVA root added a level-2 table next to one it had, with
\* guest memory mapped under the MPA root
C18_Witness ==
    /\ pc = "run"
    /\ last.op = "set_mapping"
    /\ last.root = "UVA"
    /\ Len(Allocs(log)) = 1
    /\ Cardinality(TablesUnder(mem, root_pa(Cur, "UVA"))) = 4
    /\ Cardinality(TablesUnder(mem, root_pa(Cur, "MPA"))) = 2
    /\ IsLeafPte(MpaLeaf(GPM_OFFSET_HPAGES))

\* ------------------------------------------------------------ page count
\* the pages that valid pointer entries of the tables refer to
ReferencedPages == {ChildOf(mem[a]) : a \in AllPointerSlots}

\* C19: from PageTables::new on, the pages on the free list, the four roots
\* and the pages that valid pointer entries refer to are together as many as
\* the pages PageTables::new freed; and right after every
\* flush_shadow_page_table the free list is as long as when init returned.
C19_NoPageLeaks ==
    /\ Constructed =>
          Len(FreeList) + 4 + Cardinality(ReferencedPages) = Cardinality(UsablePages)
    /\ (last.op = "init" /\ halt = "none") => Len(FreeList) = free_after_init
    /\ last.op = "flush" => (halt = "none" /\ Len(FreeList) = free_after_init)

\* a flush gave back the three tables that two walks had taken
C19_Witness ==
    /\ pc = "run"
    /\ last.op = "flush"
    /\ Len(Frees(log)) = 3
    /\ free_after_init = 3
    /\ Len(FreeList) = 3
    /\ Cardinality(ReferencedPages) = 1

\* ------------------------------------------------------------ leaf slots
\* another byte of the page of VaLow1
VaLow1Off == VA(0, 0, 0, 1, 291)
AliasVAs == MapVAs \cup {VaLow1Off}

\* bits 38..12 of the two addresses are the same
SameBits38To12(va1, va2) ==
    va1.vpn2 = va2.vpn2 /\ va1.vpn1 = va2.vpn1 /\ va1.vpn0 = va2.vpn0

\* C20: a walk made right after a set_mapping, for any admissible (root, va),
\* returns the slot that set_mapping wrote exactly when the roots are the same
\* and the addresses agree in bits 38..12; the slot it returns lies in a
\* level-2 table of its root, not in a root, a level-1 table or a page on the
\* free list; and a set_mapping for another page or root leaves the leaf that
\* was installed in its slot.
C20_LeafSlotsNeverAlias ==
    (pc = "run" /\ last.op = "set_mapping") =>
        \A root2 \in ShadowRoots, va2 \in AliasVAs :
            LET r2 == pte_for_addr(Cur, root2, va2)
                m == r2.st.mem
                page == PageOf(r2.addr)
                free == FreeListSeq(m, r2.st.free_list_head, NumPages + 1)
                same == (root2 = last.root /\ SameBits38To12(va2, last.va))
            IN r2.st.halt = "none" =>
                 /\ (r2.addr = last.addr) = same
                 /\ page \in ChildrenIn(m, ChildrenIn(m, {root_pa(Cur, root2)}))
                 /\ page \notin RootPages \cup ChildrenIn(m, RootPages)
                 /\ \A i \in 1..Len(free) : free[i] # page
                 /\ ~same => Read(set_leaf_pte(m, r2.addr, PteX), last.addr) = last.pte

\* two pages of the UVA root have their leaves side by side in one level-2
\* table, and the KVA root has the leaf of the first of them in another
C20_Witness ==
    /\ pc = "run"
    /\ last.op = "set_mapping"
    /\ last.root = "UVA"
    /\ last.va = VaLow1
    /\ log = <<>>
    /\ Read(mem, last.addr) = PteRW
    /\ Read(mem, last.addr - 8) = PteX
    /\ last.addr = pte_for_addr(Cur, "UVA", VaLow1Off).addr
    /\ LET k == pte_for_addr(Cur, "KVA", VaLow0)
       IN /\ k.st.halt = "none"
          /\ k.st.log = <<>>
          /\ PageOf(k.addr) # PageOf(last.addr)
          /\ Read(mem, k.addr) = PteRW

=============================================================================
